---- MODULE Spec2Model ----
(***************************************************************************)
(* A model of package gift (src/gift.go): the filter list GIFT, its        *)
(* options, Bounds, Draw and DrawAt with the two composition operators.    *)
(*                                                                         *)
(* Rasters are kept pixel by pixel.  A channel value is a rational <<n,d>> *)
(* (d > 0, lowest terms); <<0,0>> is NaN and <<1,0>>, <<-1,0>> are the      *)
(* infinities, as Go's floating-point division produces them.  Rounding of *)
(* float32 arithmetic and the quantisation of a pixel encoding are not     *)
(* modelled: the channel values the rasters start with (0, 1/3, 1) are     *)
(* exactly representable in the 8 and 16 bit encodings.                    *)
(***************************************************************************)
EXTENDS Integers, Sequences, FiniteSets, TLC

(***************************************************************************)
(* Bounds of the model.                                                    *)
(***************************************************************************)
\* Longest filter list handed to New / NewWithOptions.
MaxFilters == 2
\* Options.Workers values handed to NewWithOptions range over -1..MaxWorkers.
MaxWorkers == 2
\* Longest filter list of the runs of Draw alone (SpecDraw).
MaxChain == 3

(***************************************************************************)
(* image.Point and image.Rectangle (Go's package image, as gift.go uses    *)
(* them).                                                                  *)
(***************************************************************************)
Pt(x, y) == [X |-> x, Y |-> y]

ZR == [Min |-> Pt(0, 0), Max |-> Pt(0, 0)]

\* image.Rect: a well-formed rectangle from two corners.
Rect(x0, y0, x1, y1) ==
    [Min |-> Pt(IF x0 <= x1 THEN x0 ELSE x1, IF y0 <= y1 THEN y0 ELSE y1),
     Max |-> Pt(IF x0 <= x1 THEN x1 ELSE x0, IF y0 <= y1 THEN y1 ELSE y0)]

RectDx(r) == r.Max.X - r.Min.X

RectDy(r) == r.Max.Y - r.Min.Y

RectEmpty(r) == r.Min.X >= r.Max.X \/ r.Min.Y >= r.Max.Y

PtAdd(p, q) == Pt(p.X + q.X, p.Y + q.Y)

PtSub(p, q) == Pt(p.X - q.X, p.Y - q.Y)

PtEq(p, q) == p.X = q.X /\ p.Y = q.Y

PtIn(p, r) ==
    /\ r.Min.X <= p.X /\ p.X < r.Max.X
    /\ r.Min.Y <= p.Y /\ p.Y < r.Max.Y

RectAdd(r, p) == [Min |-> PtAdd(r.Min, p), Max |-> PtAdd(r.Max, p)]

RectSub(r, p) == [Min |-> PtSub(r.Min, p), Max |-> PtSub(r.Max, p)]

\* Rectangle.Intersect: the largest rectangle in both, ZR when that is empty.
RectIntersect(r, s) ==
    LET t == [Min |-> Pt(IF r.Min.X < s.Min.X THEN s.Min.X ELSE r.Min.X,
                         IF r.Min.Y < s.Min.Y THEN s.Min.Y ELSE r.Min.Y),
              Max |-> Pt(IF r.Max.X > s.Max.X THEN s.Max.X ELSE r.Max.X,
                         IF r.Max.Y > s.Max.Y THEN s.Max.Y ELSE r.Max.Y)]
    IN  IF RectEmpty(t) THEN ZR ELSE t

\* The points of a rectangle (half-open).
PointsOf(r) ==
    {Pt(x, y) : x \in r.Min.X .. (r.Max.X - 1), y \in r.Min.Y .. (r.Max.Y - 1)}

(***************************************************************************)
(* Floating-point channel values.                                          *)
(***************************************************************************)
Abs(n) == IF n < 0 THEN -n ELSE n

Sign(n) == IF n < 0 THEN -1 ELSE IF n > 0 THEN 1 ELSE 0

RECURSIVE Gcd(_, _)
Gcd(a, b) == IF b = 0 THEN a ELSE Gcd(b, a % b)

NaN == <<0, 0>>

\* The rational n/d (d # 0) in lowest terms.
Q(n, d) ==
    LET g == Gcd(Abs(n), Abs(d))
    IN  <<(Sign(d) * n) \div g, Abs(d) \div g>>

F0 == Q(0, 1)

F1 == Q(1, 1)

Third == Q(1, 3)

IsNaN(x) == x = NaN

IsFinite(x) == x[2] > 0

FNeg(x) == <<-x[1], x[2]>>

FMul(x, y) ==
    IF IsNaN(x) \/ IsNaN(y) THEN NaN
    ELSE IF IsFinite(x) /\ IsFinite(y) THEN Q(x[1] * y[1], x[2] * y[2])
    ELSE <<Sign(x[1]) * Sign(y[1]), 0>>

FAdd(x, y) ==
    IF IsNaN(x) \/ IsNaN(y) THEN NaN
    ELSE IF IsFinite(x) /\ IsFinite(y)
         THEN Q(x[1] * y[2] + y[1] * x[2], x[2] * y[2])
    ELSE IF IsFinite(x) THEN y
    ELSE IF IsFinite(y) THEN x
    ELSE IF x = y THEN x ELSE NaN

FSub(x, y) == FAdd(x, FNeg(y))

\* Go's float division: 0/0 is NaN, x/0 an infinity; neither panics.
FDiv(x, y) ==
    IF IsNaN(x) \/ IsNaN(y) THEN NaN
    ELSE IF IsFinite(x) /\ IsFinite(y)
         THEN IF y[1] # 0 THEN Q(x[1] * y[2], x[2] * y[1])
              ELSE <<Sign(x[1]), 0>>
    ELSE IF IsFinite(y) THEN <<x[1] * (IF y[1] < 0 THEN -1 ELSE 1), 0>>
    ELSE IF IsFinite(x) THEN F0
    ELSE NaN

FLess(x, y) == IsFinite(x) /\ IsFinite(y) /\ x[1] * y[2] < y[1] * x[2]

(***************************************************************************)
(* Pixels: four channels, straight alpha.                                  *)
(***************************************************************************)
pixel(r, g, b, a) == [r |-> r, g |-> g, b |-> b, a |-> a]

TransparentBlack == pixel(F0, F0, F0, F0)

(***************************************************************************)
(* Rasters.  A raster is [kind, b, pix]: its concrete type, its bounds and *)
(* its pixels as the pixel getter reads them.  A view [area, idx, b] names *)
(* a raster of the heap and the bounds it is seen through: the raster's    *)
(* own, or a sub-image's.                                                  *)
(***************************************************************************)
\* The concrete types getSubImage's type switch lists.
SubImageKinds == {"Gray", "Gray16", "RGBA", "RGBA64", "NRGBA", "NRGBA64"}

\* Types that store alpha-premultiplied colour.
PremultipliedKinds == {"RGBA", "RGBA64"}

\* What a float-to-integer conversion makes of a channel that is not finite:
\* Go leaves it to the implementation, so a write of such a channel chooses.
NaNConversions == {F0, F1}

Clamp(v, nanv) ==
    IF ~IsFinite(v) THEN nanv
    ELSE IF v[1] < 0 THEN F0
    ELSE IF FLess(F1, v) THEN F1
    ELSE v

\* The pixel a later getPixel reads after setPixel(px) on a raster of this
\* kind: channels clamped to [0,1]; a premultiplied encoding loses the colour
\* of a fully transparent pixel.
Store(kind, px, nanv) ==
    LET a == Clamp(px.a, nanv)
    IN  IF kind \in PremultipliedKinds /\ a = F0 THEN TransparentBlack
        ELSE pixel(Clamp(px.r, nanv), Clamp(px.g, nanv), Clamp(px.b, nanv), a)

NoRaster == [kind |-> "none", b |-> ZR, pix |-> <<>>]

NoView == [area |-> "none", idx |-> 0, b |-> ZR]

EmptyHeap == [src |-> NoRaster, dst |-> NoRaster, tmp |-> NoRaster, inter |-> <<>>]

\* createTempImage: a fresh raster of the given bounds, every pixel zero.
createTempImage(r) ==
    [kind |-> "NRGBA64", b |-> r, pix |-> [p \in PointsOf(r) |-> TransparentBlack]]

ViewOf(area, ras) == [area |-> area, idx |-> 0, b |-> ras.b]

RasterOf(h, v) == IF v.area = "inter" THEN h.inter[v.idx] ELSE h[v.area]

PutRaster(h, v, ras) ==
    IF v.area = "inter" THEN [h EXCEPT !.inter[v.idx] = ras]
    ELSE [h EXCEPT ![v.area] = ras]

\* pixelGetter.getPixel, for a point of the view.
getPixel(h, v, p) == RasterOf(h, v).pix[p]

\* pixelSetter.setPixel for every point of upd at once: a point outside the
\* bounds of the view is skipped.
setPixels(h, v, upd, nanv) ==
    LET ras == RasterOf(h, v)
    IN  PutRaster(h, v,
            [ras EXCEPT !.pix =
                [p \in DOMAIN ras.pix |->
                    IF p \in DOMAIN upd /\ PtIn(p, v.b)
                    THEN Store(ras.kind, upd[p], nanv)
                    ELSE ras.pix[p]]])

\* copyimage: src copied into dst, each anchored at its own origin.
copyimage(h, dst, src, nanv) ==
    setPixels(h, dst,
        [q \in {PtAdd(dst.b.Min, PtSub(p, src.b.Min)) : p \in PointsOf(src.b)} |->
            getPixel(h, src, PtAdd(src.b.Min, PtSub(q, dst.b.Min)))],
        nanv)

\* parallelize: the chunks [start, stop) is split into, at most procs of them.
Chunks(procs, start, stop) ==
    LET count == stop - start
        n == IF procs < count THEN procs ELSE count
    IN  IF count < 1 THEN <<>>
        ELSE [k \in 1 .. n |->
                [start |-> start + ((k - 1) * count) \div n,
                 stop  |-> start + (k * count) \div n]]

(***************************************************************************)
(* Filters: the implementations of interface Filter the model runs.        *)
(***************************************************************************)
FilterKinds == {"invert", "crop", "fail"}

\* The rectangle of the crop filter.
CropRect == Rect(0, 0, 1, 2)

\* Filter.Bounds.
FilterBounds(f, srcBounds) ==
    IF f = "crop"
    THEN LET c == RectIntersect(srcBounds, CropRect) IN RectSub(c, c.Min)
    ELSE Rect(0, 0, RectDx(srcBounds), RectDy(srcBounds))

\* The part of the input a filter reads, anchored at the output's origin.
FilterSource(f, srcBounds) ==
    IF f = "crop" THEN RectIntersect(srcBounds, CropRect) ELSE srcBounds

FilterPixel(f, px) ==
    IF f = "crop" THEN px
    ELSE pixel(FSub(F1, px.r), FSub(F1, px.g), FSub(F1, px.b), px.a)

\* Filter.Draw: [heap, err].  A filter renders its whole output, anchored at
\* the origin of dst; the failing filter stops after its first pixel and
\* returns an error.
FilterDraw(f, h, dst, src, nanv) ==
    LET sb == FilterSource(f, src.b)
        all == {PtAdd(dst.b.Min, PtSub(p, sb.Min)) : p \in PointsOf(sb)}
        pts == IF f = "fail" THEN all \cap {dst.b.Min} ELSE all
    IN  [heap |-> setPixels(h, dst,
                      [q \in pts |->
                          FilterPixel(f, getPixel(h, src, PtAdd(sb.Min, PtSub(q, dst.b.Min))))],
                      nanv),
         err |-> f = "fail"]

\* The Options a filter's Draw leaves behind the pointer it is handed: a
\* filter has no side effect but on the pixels of its output.
FilterOptions(f, o) == o

\* The Options copyimage leaves behind the pointer it is handed.
copyimageOptions(o) == o

(***************************************************************************)
(* Options and GIFT.                                                       *)
(***************************************************************************)
DefaultWorkers == 6

Min2(a, b) == IF a < b THEN a ELSE b

\* Mutant of OptionsInit: a Workers value of zero is kept.
OptionsInitKeepsZero(o, ncpu) ==
    IF o.Workers < 0 THEN [o EXCEPT !.Workers = Min2(DefaultWorkers, ncpu)] ELSE o

\* Options.init.
OptionsInit(o, ncpu) ==
    IF o.Workers < 1 THEN [o EXCEPT !.Workers = Min2(DefaultWorkers, ncpu)] ELSE o

\* Mutant of BoundsFrom: the filters applied from the last to the first.
RECURSIVE BoundsFromBackwards(_, _, _)
BoundsFromBackwards(fs, i, b) ==
    IF i > Len(fs) THEN b ELSE FilterBounds(fs[i], BoundsFromBackwards(fs, i + 1, b))

\* GIFT.Bounds: the loop over g.filters, from filter i on.
RECURSIVE BoundsFrom(_, _, _)
BoundsFrom(fs, i, b) ==
    IF i > Len(fs) THEN b ELSE BoundsFrom(fs, i + 1, FilterBounds(fs[i], b))

GIFTBounds(fs, srcBounds) == BoundsFrom(fs, 1, srcBounds)

\* Mutant of getSubImage: the sub-image is the whole image.
getSubImageWhole(h, img, pt) ==
    IF ~PtIn(pt, img.b) THEN [ok |-> FALSE, view |-> NoView]
    ELSE IF RasterOf(h, img).kind \in SubImageKinds THEN [ok |-> TRUE, view |-> img]
    ELSE [ok |-> FALSE, view |-> NoView]

\* getSubImage: [ok, view].
getSubImage(h, img, pt) ==
    IF ~PtIn(pt, img.b) THEN [ok |-> FALSE, view |-> NoView]
    ELSE IF RasterOf(h, img).kind \in SubImageKinds
         THEN [ok |-> TRUE,
               view |-> [img EXCEPT !.b = RectIntersect([Min |-> pt, Max |-> img.b.Max], img.b)]]
    ELSE [ok |-> FALSE, view |-> NoView]

\* The pixel DrawAt's OverOperator writes for destination px0 and source px1.
OverPixel(px0, px1) ==
    LET c1 == px1.a
        c0 == FMul(FSub(F1, c1), px0.a)
        cs == FAdd(c0, c1)
        w0 == FDiv(c0, cs)
        w1 == FDiv(c1, cs)
    IN  pixel(FAdd(FMul(px0.r, w0), FMul(px1.r, w1)),
              FAdd(FMul(px0.g, w0), FMul(px1.g, w1)),
              FAdd(FMul(px0.b, w0), FMul(px1.b, w1)),
              FAdd(px0.a, FMul(px1.a, FSub(F1, px0.a))))

(***************************************************************************)
(* The values the operations are called with.                              *)
(***************************************************************************)
RECURSIVE SeqsUpTo(_, _)
SeqsUpTo(S, n) ==
    IF n = 0 THEN {<<>>}
    ELSE LET shorter == SeqsUpTo(S, n - 1)
         IN  shorter \cup {Append(s, x) : s \in {t \in shorter : Len(t) = n - 1}, x \in S}

FilterLists == SeqsUpTo(FilterKinds, MaxFilters)

WorkerInputs == (-1) .. MaxWorkers

CPUCounts == {2, 8}

Palette ==
    << pixel(F1, F0, F0, F1),
       pixel(F0, F0, F1, Third),
       pixel(F0, F1, F0, F0),
       TransparentBlack >>

\* A raster of the given type and bounds holding the palette in a pattern.
MakeRaster(kind, b, shift) ==
    [kind |-> kind, b |-> b,
     pix |-> [p \in PointsOf(b) |->
                Store(kind, Palette[((p.X + 2 * p.Y + shift) % Len(Palette)) + 1], F0)]]

SrcRasters ==
    {MakeRaster("NRGBA", b, s) : b \in {Rect(0, 0, 1, 3), Rect(2, 1, 4, 2)}, s \in {0, 2}}

DstRasters ==
    {MakeRaster(k, b, 1) : k \in {"NRGBA", "RGBA", "Custom"},
                           b \in {Rect(0, 0, 2, 2), Rect(1, 1, 2, 4)}}

\* Placement points: the origin of dst, a point inside it, a point left of
\* it and its far corner.
PlacementPoints(b) ==
    {b.Min, PtAdd(b.Min, Pt(0, 1)), PtAdd(b.Min, Pt(-1, 0)), b.Max}

Operators == {"CopyOperator", "OverOperator"}

(***************************************************************************)
(* State.                                                                  *)
(***************************************************************************)
VARIABLES
    filters,          \* g.filters
    options,          \* g.options
    defaultOptions,   \* the package's defaultOptions
    numCPU,           \* runtime.NumCPU()
    ctor,             \* how g was made: the constructor, the Options it was given,
                      \* the caller's Options after the call, and g as returned
    heap,             \* the rasters: src, dst, DrawAt's tmp, Draw's intermediates
    call,             \* the public call in progress and its arguments
    pc,               \* "idle", "draw", "par", "done"
    dr,               \* the frame of Draw
    da,               \* the frame of DrawAt
    par,              \* parallelize: each worker's chunk and next row
    ret               \* what the call returned

vars == <<filters, options, ctor, defaultOptions, numCPU, heap, call, pc, dr, da, par, ret>>

NoCall ==
    [fn |-> "none", dst |-> NoView, src |-> NoView, pt |-> Pt(0, 0),
     op |-> "CopyOperator", srcBounds |-> ZR, dst0 |-> NoRaster]

NoDraw ==
    [dst |-> NoView, src |-> NoView, i |-> 0, tmpIn |-> NoView, tmpOut |-> NoView,
     allocs |-> 0, invoked |-> <<>>]

NoDrawAt == [path |-> "none", tb |-> ZR, tmp |-> NoView, ib |-> ZR]

NoRet == [err |-> "none", from |-> 0, bounds |-> ZR]

\* The record of a construction.
Made(fn, given, after, fs, o) ==
    [fn |-> fn, given |-> given, after |-> after, filters |-> fs, options |-> o]

\* Mutant of CallerOptions: init runs on the caller's Options.
CallerOptionsInitialised(o, ncpu) == OptionsInit(o, ncpu)

\* The caller's Options after NewWithOptions(o, ...): the parameter is a
\* copy, and init runs on the copy.
CallerOptions(o, ncpu) == o

Init ==
    /\ numCPU \in CPUCounts
    /\ defaultOptions = OptionsInit([Workers |-> 0], numCPU)
    /\ filters = <<>>
    /\ options = defaultOptions
    /\ ctor = Made("New", [Workers |-> 0], [Workers |-> 0], <<>>, defaultOptions)
    /\ heap = EmptyHeap
    /\ call = NoCall
    /\ pc = "idle"
    /\ dr = NoDraw
    /\ da = NoDrawAt
    /\ par = <<>>
    /\ ret = NoRet

(***************************************************************************)
(* Construction.                                                           *)
(***************************************************************************)
New(fs) ==
    /\ pc = "idle"
    /\ filters' = fs
    /\ options' = defaultOptions
    /\ ctor' = Made("New", [Workers |-> 0], [Workers |-> 0], filters', options')
    /\ UNCHANGED <<defaultOptions, numCPU, heap, call, pc, dr, da, par, ret>>

NewWithOptions(o, fs) ==
    /\ pc = "idle"
    /\ filters' = fs
    /\ options' = OptionsInit(o, numCPU)
    /\ ctor' = Made("NewWithOptions", o, CallerOptions(o, numCPU), filters', options')
    /\ UNCHANGED <<defaultOptions, numCPU, heap, call, pc, dr, da, par, ret>>

(***************************************************************************)
(* Bounds.                                                                 *)
(***************************************************************************)
Bounds(srcBounds) ==
    /\ pc = "idle"
    /\ call' = [NoCall EXCEPT !.fn = "Bounds", !.srcBounds = srcBounds]
    /\ ret' = [NoRet EXCEPT !.bounds = GIFTBounds(filters, srcBounds)]
    /\ pc' = "done"
    /\ UNCHANGED <<filters, options, ctor, defaultOptions, numCPU, heap, dr, da, par>>

(***************************************************************************)
(* Draw.                                                                   *)
(***************************************************************************)
\* The frame of g.Draw(dst, src) on entry.
DrawFrame(dst, src) == [NoDraw EXCEPT !.dst = dst, !.src = src, !.i = 1]

Draw(dstR, srcR) ==
    /\ pc = "idle"
    /\ heap' = [EmptyHeap EXCEPT !.dst = dstR, !.src = srcR]
    /\ call' = [NoCall EXCEPT !.fn = "Draw", !.dst = ViewOf("dst", dstR),
                              !.src = ViewOf("src", srcR), !.dst0 = dstR]
    /\ dr' = DrawFrame(ViewOf("dst", dstR), ViewOf("src", srcR))
    /\ pc' = "draw"
    /\ ret' = NoRet
    /\ UNCHANGED <<filters, options, ctor, defaultOptions, numCPU, da, par>>

\* Mutant of WorkerRows: every worker loops over all rows of the intersection.
WorkerRowsWhole(chunk, ib) ==
    [start |-> ib.Min.Y, stop |-> ib.Max.Y, y |-> ib.Min.Y, rows |-> <<>>]

\* The loop of the function DrawAt hands to parallelize, called with one
\* chunk: y runs from the chunk's start up to its stop; rows is the log of
\* the rows the worker has processed.
WorkerRows(chunk, ib) ==
    [start |-> chunk.start, stop |-> chunk.stop, y |-> chunk.start, rows |-> <<>>]

\* g.Draw returns err (TRUE: an error) to its caller: the caller of the
\* package, or DrawAt, which returns it or goes on to its pass over the
\* rows of the intersection.
DrawReturn(err) ==
    IF call.fn = "Draw" \/ da.path \in {"direct", "sub"} \/ err
    THEN /\ pc' = "done"
         /\ ret' = [ret EXCEPT !.err = IF err THEN "err" ELSE "nil",
                                !.from = IF err THEN dr.i ELSE 0]
         /\ UNCHANGED <<da, par>>
    ELSE LET ib == RectIntersect(da.tb, call.dst.b)
             ch == Chunks(options.Workers, ib.Min.Y, ib.Max.Y)
         IN  /\ da' = [da EXCEPT !.ib = ib]
             /\ par' = [k \in DOMAIN ch |-> WorkerRows(ch[k], ib)]
             /\ pc' = IF ch = <<>> THEN "done" ELSE "par"
             /\ ret' = IF ch = <<>> THEN [ret EXCEPT !.err = "nil"] ELSE ret

\* Mutant of DrawEmpty: an empty filter list draws nothing.
DrawEmptyNoCopy(h, dst, src) == h

\* Draw's result for an empty filter list.
DrawEmpty(h, dst, src) == copyimage(h, dst, src, F0)

\* Draw with no filters: copyimage.
DrawCopy ==
    /\ pc = "draw"
    /\ Len(filters) = 0
    /\ heap' = DrawEmpty(heap, dr.dst, dr.src)
    /\ dr' = dr
    /\ options' = copyimageOptions(options)
    /\ DrawReturn(FALSE)
    /\ UNCHANGED <<filters, ctor, defaultOptions, numCPU, call>>

\* Mutant of DrawInput: every filter reads the source of Draw.
DrawInputIsSrc(i) == dr.src

\* The input of filter i of Draw's loop.
DrawInput(i) == IF i = 1 THEN dr.src ELSE dr.tmpOut

\* Mutant of IntermediateBounds: the intermediate takes the bounds of the input.
IntermediateBoundsOfInput(f, in) == in.b

\* The bounds of the intermediate Draw allocates as the output of filter f.
IntermediateBounds(f, in) == FilterBounds(f, in.b)

\* Mutant of DrawIsLast: the first filter is taken for the last.
DrawIsFirst(i) == i = 1

\* Whether filter i of Draw's loop writes to Draw's dst.
DrawIsLast(i) == i = Len(filters)

\* Mutant of DrawStops: a filter's error does not end the loop.
DrawStopsAtEnd(err, i) == i = Len(filters)

\* Whether Draw's loop ends with filter i: its Draw failed, or it is the last.
DrawStops(err, i) == err \/ i = Len(filters)

\* One iteration of Draw's loop: filter dr.i.
DrawFilter ==
    /\ pc = "draw"
    /\ Len(filters) # 0
    /\ LET i == dr.i
           f == filters[i]
           tmpIn == DrawInput(i)
           ob == IntermediateBounds(f, tmpIn)
           h1 == IF DrawIsLast(i) THEN heap
                 ELSE [heap EXCEPT !.inter = Append(@, createTempImage(ob))]
           tmpOut == IF DrawIsLast(i) THEN dr.dst
                     ELSE [area |-> "inter", idx |-> Len(h1.inter), b |-> ob]
           res == FilterDraw(f, h1, tmpOut, tmpIn, F0)
           done == DrawStops(res.err, i)
       IN  /\ heap' = res.heap
           /\ options' = FilterOptions(f, options)
           /\ dr' = [dr EXCEPT !.i = IF done THEN i ELSE i + 1,
                               !.tmpIn = tmpIn, !.tmpOut = tmpOut,
                               !.allocs = IF DrawIsLast(i) THEN @ ELSE @ + 1,
                               !.invoked = Append(@, [i |-> i, in |-> tmpIn,
                                                      out |-> tmpOut, err |-> res.err])]
           /\ IF done THEN DrawReturn(res.err)
              ELSE UNCHANGED <<pc, ret, da, par>>
    /\ UNCHANGED <<filters, ctor, defaultOptions, numCPU, call>>

(***************************************************************************)
(* DrawAt.                                                                 *)
(***************************************************************************)
\* Mutant of TempBounds: the output bounds are moved to the origin, not to pt.
TempBoundsAtOrigin(fs, srcBounds, pt) ==
    LET tb == GIFTBounds(fs, srcBounds) IN RectSub(tb, tb.Min)

\* The bounds of DrawAt's temporary: the output bounds moved to pt.
TempBounds(fs, srcBounds, pt) ==
    LET tb == GIFTBounds(fs, srcBounds) IN RectAdd(RectSub(tb, tb.Min), pt)

\* Mutant of DrawAtPath: pt at the origin of dst is not drawn directly.
DrawAtPathNeverDirect(h, dst, pt, op) ==
    IF op = "OverOperator" THEN "over"
    ELSE IF getSubImage(h, dst, pt).ok THEN "sub"
    ELSE "tmp"

\* Mutant of DrawAtPath: pt at the origin of dst is drawn directly whatever
\* the operator.
DrawAtPathDirectFirst(h, dst, pt, op) ==
    IF PtEq(pt, dst.b.Min) THEN "direct"
    ELSE IF op = "OverOperator" THEN "over"
    ELSE IF getSubImage(h, dst, pt).ok THEN "sub"
    ELSE "tmp"

\* The way DrawAt takes.
DrawAtPath(h, dst, pt, op) ==
    IF op = "OverOperator" THEN "over"
    ELSE IF PtEq(pt, dst.b.Min) THEN "direct"
    ELSE IF getSubImage(h, dst, pt).ok THEN "sub"
    ELSE "tmp"

DrawAt(dstR, srcR, pt, op) ==
    /\ pc = "idle"
    /\ LET dst == ViewOf("dst", dstR)
           src == ViewOf("src", srcR)
           h0 == [EmptyHeap EXCEPT !.dst = dstR, !.src = srcR]
           path == DrawAtPath(h0, dst, pt, op)
           tb == TempBounds(filters, src.b, pt)
           tmp == [area |-> "tmp", idx |-> 0, b |-> tb]
       IN  /\ call' = [NoCall EXCEPT !.fn = "DrawAt", !.dst = dst, !.src = src,
                                     !.pt = pt, !.op = op, !.dst0 = dstR]
           /\ IF path \in {"over", "tmp"}
              THEN /\ heap' = [h0 EXCEPT !.tmp = createTempImage(tb)]
                   /\ da' = [NoDrawAt EXCEPT !.path = path, !.tb = tb, !.tmp = tmp]
                   /\ dr' = DrawFrame(tmp, src)
              ELSE /\ heap' = h0
                   /\ da' = [NoDrawAt EXCEPT !.path = path]
                   /\ dr' = DrawFrame(IF path = "direct" THEN dst
                                      ELSE getSubImage(h0, dst, pt).view, src)
    /\ pc' = "draw"
    /\ ret' = NoRet
    /\ UNCHANGED <<filters, options, ctor, defaultOptions, numCPU, par>>

\* The points of row y of the intersection.
RowPoints(y) == {Pt(x, y) : x \in da.ib.Min.X .. (da.ib.Max.X - 1)}

\* A worker of the OverOperator's pass blends its next row.
OverRow(w) ==
    /\ pc = "par"
    /\ da.path = "over"
    /\ par[w].y < par[w].stop
    /\ \E nanv \in NaNConversions :
           heap' = setPixels(heap, call.dst,
                       [p \in RowPoints(par[w].y) |->
                           OverPixel(getPixel(heap, call.dst, p), getPixel(heap, da.tmp, p))],
                       nanv)
    /\ par' = [par EXCEPT ![w].y = @ + 1, ![w].rows = Append(@, par[w].y)]
    /\ UNCHANGED <<filters, options, ctor, defaultOptions, numCPU, call, pc, dr, da, ret>>

\* A worker of the CopyOperator's pass copies its next row.
CopyRow(w) ==
    /\ pc = "par"
    /\ da.path = "tmp"
    /\ par[w].y < par[w].stop
    /\ heap' = setPixels(heap, call.dst,
                   [p \in RowPoints(par[w].y) |-> getPixel(heap, da.tmp, p)],
                   F0)
    /\ par' = [par EXCEPT ![w].y = @ + 1, ![w].rows = Append(@, par[w].y)]
    /\ UNCHANGED <<filters, options, ctor, defaultOptions, numCPU, call, pc, dr, da, ret>>

\* Every worker has finished: parallelize returns, and DrawAt returns nil.
Join ==
    /\ pc = "par"
    /\ \A w \in DOMAIN par : par[w].y = par[w].stop
    /\ pc' = "done"
    /\ ret' = [ret EXCEPT !.err = "nil"]
    /\ UNCHANGED <<filters, options, ctor, defaultOptions, numCPU, heap, call, dr, da, par>>

\* The caller takes the result; the rasters of the call are dropped.
Return ==
    /\ pc = "done"
    /\ pc' = "idle"
    /\ heap' = EmptyHeap
    /\ call' = NoCall
    /\ dr' = NoDraw
    /\ da' = NoDrawAt
    /\ par' = <<>>
    /\ ret' = NoRet
    /\ UNCHANGED <<filters, options, ctor, defaultOptions, numCPU>>

Next ==
    \/ \E fs \in FilterLists : New(fs)
    \/ \E w \in WorkerInputs, fs \in FilterLists : NewWithOptions([Workers |-> w], fs)
    \/ \E s \in SrcRasters : Bounds(s.b)
    \/ \E d \in DstRasters, s \in SrcRasters : Draw(d, s)
    \/ \E d \in DstRasters, s \in SrcRasters, op \in Operators :
           \E pt \in PlacementPoints(d.b) : DrawAt(d, s, pt, op)
    \/ DrawCopy
    \/ DrawFilter
    \/ \E w \in DOMAIN par : OverRow(w)
    \/ \E w \in DOMAIN par : CopyRow(w)
    \/ Join
    \/ Return

Spec == Init /\ [][Next]_vars

\* Draw alone, with longer filter lists.
NextDraw ==
    \/ \E fs \in SeqsUpTo(FilterKinds, MaxChain) : New(fs)
    \/ \E d \in DstRasters, s \in SrcRasters : Draw(d, s)
    \/ DrawCopy
    \/ DrawFilter
    \/ Return

SpecDraw == Init /\ [][NextDraw]_vars

(***************************************************************************)
(* Properties.                                                             *)
(***************************************************************************)
\* f_n.Bounds(... f_2.Bounds(f_1.Bounds(B)) ...), by recursion on the last
\* filter of the list.
RECURSIVE FoldBounds(_, _)
FoldBounds(fs, B) ==
    IF fs = <<>> THEN B
    ELSE FilterBounds(fs[Len(fs)], FoldBounds(SubSeq(fs, 1, Len(fs) - 1), B))

\* The pixel a raster of this kind holds for px (channels in [0,1]).
AsStored(kind, px) ==
    IF kind \in {"RGBA", "RGBA64"} /\ px.a = F0 THEN TransparentBlack ELSE px

\* A Draw or DrawAt call is in progress or has returned.
Drawing == call.fn \in {"Draw", "DrawAt"}

\* g.Draw has returned nil.
DrawSucceeded == Drawing /\ (pc = "par" \/ (pc = "done" /\ ret.err = "nil"))

\* C1: GIFT.Bounds(B) is the fold of the filters' Bounds over B in list
\* order (B itself for the empty list); being this function of the list and
\* of B, it returns the same rectangle whenever it is called with the same.
C1_BoundsIsFold ==
    (pc = "done" /\ call.fn = "Bounds") =>
        ret.bounds = FoldBounds(filters, call.srcBounds)

\* Bounds has returned for a list of two filters whose order matters.
C1_Witness ==
    /\ pc = "done" /\ call.fn = "Bounds"
    /\ Len(filters) = 2
    /\ ret.bounds # FoldBounds(<<filters[2], filters[1]>>, call.srcBounds)

\* C2: the filters are invoked once each in list order; a filter that fails
\* is the last one invoked and Draw returns its failure; Draw returns nil
\* only when every filter of the list was invoked and succeeded.
C2_DrawStopsAtFailure ==
    Drawing =>
        /\ \A k \in DOMAIN dr.invoked :
              /\ dr.invoked[k].i = k
              /\ dr.invoked[k].err =>
                    /\ k = Len(dr.invoked)
                    /\ pc = "done" /\ ret.err = "err" /\ ret.from = k
        /\ (pc = "done" /\ ret.err = "err") =>
              /\ dr.invoked # <<>>
              /\ dr.invoked[Len(dr.invoked)].err
        /\ DrawSucceeded =>
              /\ Len(dr.invoked) = Len(filters)
              /\ \A k \in DOMAIN dr.invoked : ~dr.invoked[k].err

\* The first of two filters has failed: Draw has returned its failure and
\* never invoked the second.
C2_Witness ==
    /\ pc = "done" /\ call.fn = "Draw" /\ ret.err = "err"
    /\ Len(filters) = 2
    /\ Len(dr.invoked) = 1

\* C7: Draw's dst is the output of the last filter and of no other, every
\* other filter's output is an intermediate of its own, and a Draw of
\* n >= 1 filters that succeeds has allocated n-1 intermediates (none for a
\* single filter).
C7_DstOnlyToLastFilter ==
    Drawing =>
        /\ \A k \in DOMAIN dr.invoked :
              /\ (dr.invoked[k].out = dr.dst) <=> (dr.invoked[k].i = Len(filters))
              /\ (dr.invoked[k].i # Len(filters)) =>
                    /\ dr.invoked[k].out.area = "inter"
                    /\ dr.invoked[k].out.idx = k
        /\ dr.allocs = Len(heap.inter)
        /\ (DrawSucceeded /\ Len(filters) >= 1) => dr.allocs = Len(filters) - 1

\* A Draw of two filters has succeeded with one intermediate.
C7_Witness ==
    /\ pc = "done" /\ call.fn = "Draw" /\ ret.err = "nil"
    /\ Len(filters) = 2
    /\ dr.allocs = 1
    /\ dr.invoked[2].out = call.dst

\* C8: Draw with no filters invokes no filter, allocates nothing, returns
\* nil and leaves in dst the pixels of src, each raster anchored at its own
\* origin, where they overlap, and the pixels dst had elsewhere.
C8_EmptyListCopies ==
    (pc = "done" /\ call.fn = "Draw" /\ filters = <<>>) =>
        /\ dr.invoked = <<>>
        /\ dr.allocs = 0
        /\ heap.inter = <<>> /\ heap.tmp = NoRaster
        /\ ret.err = "nil"
        /\ \A p \in PointsOf(call.dst.b) :
              LET q == PtAdd(call.src.b.Min, PtSub(p, call.dst.b.Min))
              IN  heap.dst.pix[p] =
                      IF PtIn(q, call.src.b) THEN AsStored(heap.dst.kind, heap.src.pix[q])
                      ELSE call.dst0.pix[p]

\* An empty-list Draw between rasters of different origins and sizes has
\* changed a part of dst and left a part of it.
C8_Witness ==
    /\ pc = "done" /\ call.fn = "Draw" /\ filters = <<>>
    /\ call.src.b.Min # call.dst.b.Min
    /\ \E p \in PointsOf(call.dst.b) : heap.dst.pix[p] # call.dst0.pix[p]
    /\ \E p \in PointsOf(call.dst.b) :
          ~PtIn(PtAdd(call.src.b.Min, PtSub(p, call.dst.b.Min)), call.src.b)

\* C10: g.options.Workers >= 1; NewWithOptions keeps a Workers value >= 1
\* and replaces any other by min(6, NumCPU), which is also what New gives.
C10_WorkersAtLeastOne ==
    /\ options.Workers >= 1
    /\ options.Workers =
          IF ctor.fn = "NewWithOptions" /\ ctor.given.Workers >= 1
          THEN ctor.given.Workers
          ELSE IF numCPU < 6 THEN numCPU ELSE 6

\* NewWithOptions was given no Workers value on a machine of 8 cores.
C10_Witness ==
    /\ ctor.fn = "NewWithOptions" /\ ctor.given.Workers = 0
    /\ numCPU = 8
    /\ options.Workers = 6

\* The output of the pipeline for a source raster when no filter fails:
\* [b, pix], each filter rendering the whole of its output bounds.
RECURSIVE Rendered(_, _)
Rendered(fs, ras) ==
    IF fs = <<>> THEN [b |-> ras.b, pix |-> ras.pix]
    ELSE LET f == fs[Len(fs)]
             prev == Rendered(SubSeq(fs, 1, Len(fs) - 1), ras)
             ob == FilterBounds(f, prev.b)
             sb == FilterSource(f, prev.b)
         IN  [b |-> ob,
              pix |-> [p \in PointsOf(ob) |->
                         FilterPixel(f, prev.pix[PtAdd(sb.Min, PtSub(p, ob.Min))])]]

\* The output bounds of the pipeline, moved so that their minimum is pt.
PlacedBounds(fs, srcBounds, pt) ==
    LET ob == FoldBounds(fs, srcBounds)
    IN  [Min |-> pt, Max |-> PtAdd(pt, Pt(RectDx(ob), RectDy(ob)))]

\* A DrawAt call with the CopyOperator has returned.
ReplaceDone == pc = "done" /\ call.fn = "DrawAt" /\ call.op = "CopyOperator"

\* C3: after a successful DrawAt with the CopyOperator, a pixel of dst inside
\* the placed output bounds holds the pipeline's output for that position and
\* every other pixel of dst is as it was, on each of the three paths.
C3_ReplacePlacesOutput ==
    (ReplaceDone /\ ret.err = "nil") =>
        LET out == Rendered(filters, heap.src)
            pb == PlacedBounds(filters, call.src.b, call.pt)
        IN  \A p \in PointsOf(call.dst.b) :
                heap.dst.pix[p] =
                    IF PtIn(p, pb)
                    THEN AsStored(heap.dst.kind, out.pix[PtAdd(out.b.Min, PtSub(p, call.pt))])
                    ELSE call.dst0.pix[p]

\* The temporary-and-copy path has placed the output of a filter over a part
\* of dst, pt lying outside dst.
C3_Witness ==
    /\ ReplaceDone /\ ret.err = "nil"
    /\ da.path = "tmp"
    /\ filters # <<>>
    /\ ~PtIn(call.pt, call.dst.b)
    /\ heap.dst # call.dst0
    /\ \E p \in PointsOf(call.dst.b) :
          ~PtIn(p, PlacedBounds(filters, call.src.b, call.pt))

\* The placed output bounds have no point in common with dst.
NoIntersection ==
    RectEmpty(RectIntersect(PlacedBounds(filters, call.src.b, call.pt), call.dst.b))

\* C4 as stated: a DrawAt with the CopyOperator whose placed output does not
\* meet dst writes nothing to dst and returns nil.
C4_NoIntersectionSucceeds ==
    (ReplaceDone /\ NoIntersection) => (heap.dst = call.dst0 /\ ret.err = "nil")

\* C4, amended: such a DrawAt never writes to dst, and it returns nil unless
\* a filter's Draw failed, whose error it then returns.
C4_NoIntersectionNoWrite ==
    (call.fn = "DrawAt" /\ call.op = "CopyOperator" /\ NoIntersection) =>
        /\ heap.dst = call.dst0
        /\ pc = "done" =>
              ret.err = IF \E k \in DOMAIN dr.invoked : dr.invoked[k].err
                        THEN "err" ELSE "nil"

\* A DrawAt whose non-empty output lies wholly outside dst has returned nil.
C4_Witness ==
    /\ ReplaceDone /\ NoIntersection /\ ret.err = "nil"
    /\ ~RectEmpty(PlacedBounds(filters, call.src.b, call.pt))
    /\ \E p \in PointsOf(da.tb) : heap.tmp.pix[p] # TransparentBlack

\* C5 as stated: where the source pixel of an OverOperator pass is opaque the
\* destination pixel becomes the source pixel, and where it is fully
\* transparent the destination pixel stays as it was, whatever its alpha.
C5_OverOpaqueAndTransparent ==
    (pc = "done" /\ call.fn = "DrawAt" /\ call.op = "OverOperator" /\ ret.err = "nil") =>
        \A p \in PointsOf(da.ib) :
            LET px0 == call.dst0.pix[p]
                px1 == heap.tmp.pix[p]
            IN  /\ px1.a = F1 => heap.dst.pix[p] = px1
                /\ px1.a = F0 => heap.dst.pix[p] = px0

\* C6 as stated: where the normalisation factor cs is 0 the weights are 0,
\* so the pixel the OverOperator pass hands to the pixel setter is fully
\* transparent black, none of its channels the result of a division by zero.
C6_ZeroNormalisationIsGuarded ==
    (pc = "par" /\ da.path = "over") =>
        \A w \in DOMAIN par :
            par[w].y < par[w].stop =>
                \A p \in RowPoints(par[w].y) :
                    LET px0 == getPixel(heap, call.dst, p)
                        px1 == getPixel(heap, da.tmp, p)
                        cs == FAdd(FMul(FSub(F1, px1.a), px0.a), px1.a)
                    IN  cs = F0 => OverPixel(px0, px1) = TransparentBlack

\* Draw(dst, src) as a function of the rasters it is given, from filter i
\* on: [heap, err].
RECURSIVE DrawFrom(_, _, _, _, _)
DrawFrom(fs, i, h, dst, in) ==
    LET ob == FilterBounds(fs[i], in.b)
        h1 == IF i = Len(fs) THEN h
              ELSE [h EXCEPT !.inter = Append(@, createTempImage(ob))]
        out == IF i = Len(fs) THEN dst
               ELSE [area |-> "inter", idx |-> Len(h1.inter), b |-> ob]
        res == FilterDraw(fs[i], h1, out, in, F0)
    IN  IF res.err \/ i = Len(fs) THEN res
        ELSE DrawFrom(fs, i + 1, res.heap, dst, out)

\* What Draw(dst, src) leaves in dst, and what it returns.
DrawOutcome(fs, dstR, srcR) ==
    LET h0 == [EmptyHeap EXCEPT !.dst = dstR, !.src = srcR]
        dst == ViewOf("dst", dstR)
        src == ViewOf("src", srcR)
        r == IF fs = <<>> THEN [heap |-> copyimage(h0, dst, src, F0), err |-> FALSE]
             ELSE DrawFrom(fs, 1, h0, dst, src)
    IN  [dst |-> r.heap.dst, err |-> IF r.err THEN "err" ELSE "nil"]

\* C9: DrawAt(dst, src, dst.Bounds().Min, CopyOperator) leaves dst as
\* Draw(dst, src) leaves it from the same rasters and returns what it
\* returns: both end in the outcome of Draw for the rasters they were given.
C9_DrawAtOriginIsDraw ==
    (pc = "done" /\ (call.fn = "Draw" \/ (ReplaceDone /\ PtEq(call.pt, call.dst.b.Min)))) =>
        LET o == DrawOutcome(filters, call.dst0, heap.src)
        IN  heap.dst = o.dst /\ ret.err = o.err

\* DrawAt at the origin of dst has failed in its last filter, which had
\* written to dst before failing.
C9_Witness ==
    /\ ReplaceDone /\ PtEq(call.pt, call.dst.b.Min)
    /\ ret.err = "err" /\ ret.from = Len(filters)
    /\ heap.dst # call.dst0

\* C11: within a Draw the filters are invoked in list order, one after the
\* other: the first reads the source of Draw, every later one reads the
\* raster the one before it was given as output, and a filter is invoked
\* only after every filter before it has returned without error.
C11_FiltersChained ==
    Drawing =>
        \A k \in DOMAIN dr.invoked :
            /\ dr.invoked[k].i = k
            /\ dr.invoked[k].in = IF k = 1 THEN dr.src ELSE dr.invoked[k - 1].out
            /\ k > 1 => ~dr.invoked[k - 1].err
            /\ k > 1 => dr.invoked[k].in.area = "inter" /\ dr.invoked[k].in.idx = k - 1

\* A Draw of three filters has invoked all three.
C11_Witness ==
    /\ pc = "done" /\ call.fn = "Draw" /\ ret.err = "nil"
    /\ Len(dr.invoked) = 3
    /\ dr.invoked[3].in = dr.invoked[2].out
    /\ dr.invoked[2].in = dr.invoked[1].out
    /\ dr.invoked[3].in # dr.invoked[2].in
    /\ dr.invoked[2].in # dr.src
    /\ dr.invoked[3].out = call.dst

\* C12: the intermediate Draw allocates as output of its k-th filter has the
\* bounds that filter's Bounds gives for the bounds of its input, which is
\* the fold of the first k filters' Bounds over the bounds of the source:
\* what GIFT.Bounds returns for the first k filters.
C12_IntermediateBounds ==
    Drawing =>
        \A k \in DOMAIN heap.inter :
            LET first == SubSeq(filters, 1, k)
                in == dr.invoked[k].in
            IN  /\ k < Len(filters)
                /\ in.b = RasterOf(heap, in).b
                /\ heap.inter[k].b = FilterBounds(filters[k], in.b)
                /\ heap.inter[k].b = FoldBounds(first, dr.src.b)
                /\ heap.inter[k].b = GIFTBounds(first, dr.src.b)
                /\ dr.invoked[k].out = [area |-> "inter", idx |-> k, b |-> heap.inter[k].b]
                /\ DOMAIN heap.inter[k].pix = PointsOf(heap.inter[k].b)

\* A Draw of three filters has allocated two intermediates of different
\* bounds, neither those of the source.
C12_Witness ==
    /\ pc = "done" /\ call.fn = "Draw" /\ ret.err = "nil"
    /\ Len(heap.inter) = 2
    /\ heap.inter[1].b # call.src.b
    /\ heap.inter[2].b # heap.inter[1].b
    /\ ~RectEmpty(heap.inter[2].b)

\* The pass of DrawAt over the rows of the intersection is running or done.
InPass ==
    /\ call.fn = "DrawAt" /\ da.path \in {"over", "tmp"}
    /\ pc = "par" \/ (pc = "done" /\ ret.err = "nil")

\* The rows of a chunk.
RowsOf(chunk) == chunk.start .. (chunk.stop - 1)

\* The processings of row y: worker and position in its log.
Touches(y) ==
    {wj \in UNION {{<<w, j>> : j \in DOMAIN par[w].rows} : w \in DOMAIN par} :
        par[wj[1]].rows[wj[2]] = y}

\* C13: the rows of the intersection are split among at most Workers workers
\* into pairwise disjoint ranges whose union is all the rows; in every
\* interleaving a worker processes only rows of its range, no row is
\* processed twice, and when DrawAt returns every worker has finished and
\* every row was processed once: a blended pixel is the blend of the
\* original destination pixel, a copied pixel is the pixel of the temporary.
C13_RowsShardedOnce ==
    InPass =>
        LET ch == Chunks(options.Workers, da.ib.Min.Y, da.ib.Max.Y)
            rows == da.ib.Min.Y .. (da.ib.Max.Y - 1)
            before == [heap EXCEPT !.dst = call.dst0]
        IN  /\ DOMAIN par = DOMAIN ch
            /\ Len(par) <= options.Workers
            /\ \A w \in DOMAIN par :
                   /\ par[w].start = ch[w].start /\ par[w].stop = ch[w].stop
                   /\ \A j \in DOMAIN par[w].rows : par[w].rows[j] \in RowsOf(ch[w])
            /\ \A v, w \in DOMAIN ch : v # w => RowsOf(ch[v]) \cap RowsOf(ch[w]) = {}
            /\ UNION {RowsOf(ch[w]) : w \in DOMAIN ch} = rows
            /\ \A y \in rows : Cardinality(Touches(y)) <= 1
            /\ pc = "done" =>
                   /\ \A w \in DOMAIN par : par[w].y = par[w].stop
                   /\ \A y \in rows : Cardinality(Touches(y)) = 1
                   /\ \A p \in PointsOf(da.ib) :
                          \E nanv \in NaNConversions :
                              heap.dst.pix[p] =
                                  Store(heap.dst.kind,
                                        IF da.path = "over"
                                        THEN OverPixel(getPixel(before, call.dst, p),
                                                       getPixel(heap, da.tmp, p))
                                        ELSE getPixel(heap, da.tmp, p),
                                        nanv)

\* DrawAt has returned after two workers blended three rows between them,
\* and the blend changed the destination.
C13_Witness ==
    /\ InPass /\ pc = "done" /\ da.path = "over"
    /\ Len(par) = 2
    /\ RectDy(da.ib) = 3
    /\ Len(par[1].rows) + Len(par[2].rows) = 3
    /\ heap.dst # call.dst0

\* A DrawAt call with the OverOperator is in progress or has returned.
OverCall == call.fn = "DrawAt" /\ call.op = "OverOperator"

\* C14: in a DrawAt with the OverOperator the pipeline draws into the
\* temporary and no filter is given dst as its output; dst is as it was
\* while the pipeline runs, a changed pixel of dst means every filter has
\* returned without error, and dst is unchanged when DrawAt returns an error.
C14_OverLeavesDstUntilSuccess ==
    OverCall =>
        /\ da.path = "over"
        /\ dr.dst = da.tmp /\ da.tmp.area = "tmp"
        /\ \A k \in DOMAIN dr.invoked : dr.invoked[k].out.area \in {"inter", "tmp"}
        /\ pc = "draw" => heap.dst = call.dst0
        /\ heap.dst # call.dst0 =>
               /\ DrawSucceeded
               /\ Len(dr.invoked) = Len(filters)
               /\ \A k \in DOMAIN dr.invoked : ~dr.invoked[k].err
        /\ (pc = "done" /\ ret.err = "err") => heap.dst = call.dst0 /\ par = <<>>

\* A DrawAt with the OverOperator has returned the error of its second
\* filter, which wrote to the temporary, where the output bounds meet dst.
C14_Witness ==
    /\ OverCall /\ pc = "done" /\ ret.err = "err"
    /\ Len(dr.invoked) = 2 /\ dr.invoked[2].err
    /\ dr.invoked[2].out = da.tmp
    /\ heap.tmp # createTempImage(da.tb)
    /\ ~RectEmpty(RectIntersect(da.tb, call.dst.b))
    /\ heap.dst = call.dst0

\* C15: Bounds, Draw and DrawAt, failed or not, leave the filter list and
\* the options of g as the constructor made them; NewWithOptions leaves the
\* caller's Options as the caller gave it, and the package's defaultOptions
\* stay what the package's init made them.
C15_ConfigurationKept ==
    /\ filters = ctor.filters
    /\ options = ctor.options
    /\ ctor.after = ctor.given
    /\ defaultOptions = [Workers |-> Min2(DefaultWorkers, numCPU)]

\* A DrawAt on a g made by NewWithOptions from Options that init changes has
\* returned the error of a filter.
C15_Witness ==
    /\ pc = "done" /\ call.fn = "DrawAt" /\ ret.err = "err"
    /\ ctor.fn = "NewWithOptions" /\ ctor.given.Workers < 1
    /\ options # ctor.given
    /\ Len(filters) = 2 /\ Len(dr.invoked) = 2
====
